---------------------------- MODULE Spec2Model ----------------------------
(***************************************************************************)
(* Model of src/util/config.rs: the persistent configuration of the CLI.   *)
(*                                                                         *)
(* State: the platform root directory and the config.json it may hold, the *)
(* in-memory Config of the running process, the process's position and the *)
(* outcome of the last operation.  One action per public operation of      *)
(* Config (new, save, get_profile, get_current_profile, rename_profile)    *)
(* and, in a specification of its own, OldConfig::migrate.                 *)
(*                                                                         *)
(* Strings the code looks into (profile names, executable names) are       *)
(* sequences of characters; paths and JSON keys are opaque strings.  A     *)
(* JSON document is a function from keys to tagged JSON values.  The file  *)
(* system is taken to be reliable: create_dir_all, write and               *)
(* read_to_string succeed.                                                 *)
(***************************************************************************)
EXTENDS Integers, Sequences, FiniteSets, TLC

VARIABLES rootExists, disk, config, pc, ret

vars == <<rootExists, disk, config, pc, ret>>

(***************************************************************************)
(* Bounds                                                                  *)
(***************************************************************************)
MaxProfiles == 2

(***************************************************************************)
(* Option<T>, HashMap<String, Value>, serde_json::Value                    *)
(***************************************************************************)
None == <<>>
Some(x) == <<x>>
is_some(o) == Len(o) = 1
is_none(o) == Len(o) = 0
unwrap_or(o, d) == IF is_some(o) THEN o[1] ELSE d

EmptyMap == <<>>
Restrict(f, S) == IF S = {} THEN EmptyMap ELSE [k \in S |-> f[k]]
Merge(f, g) == IF DOMAIN g = {} THEN f ELSE f @@ g

JNull == <<"null">>
JStr(s) == <<"str", s>>
JBool(b) == <<"bool", b>>
JNum(n) == <<"num", n>>
JArr(a) == <<"arr", a>>
JObj(f) == <<"obj", f>>
Tag(v) == v[1]

(***************************************************************************)
(* The in-memory structures                                                *)
(***************************************************************************)
Profile(name, gd_path, other) == [name |-> name, gd_path |-> gd_path, other |-> other]

Config(current_profile, profiles, default_developer, sdk_nightly, other) ==
    [current_profile |-> current_profile, profiles |-> profiles,
     default_developer |-> default_developer, sdk_nightly |-> sdk_nightly,
     other |-> other]

OldConfigInstallation(path, executable) == [path |-> path, executable |-> executable]

OldConfig(default_installation, working_installation, installations, default_developer) ==
    [default_installation |-> default_installation,
     working_installation |-> working_installation,
     installations |-> installations,
     default_developer |-> default_developer]

\* The Config literal that Config::new builds when there is nothing to read.
EmptyConfig == Config(None, <<>>, None, FALSE, EmptyMap)

(***************************************************************************)
(* serde: deserialization.  A result is None (Err) or Some(value) (Ok).    *)
(***************************************************************************)
\* Option<String> / Option<usize> field: a missing key and null are None.
de_opt(f, key, tag) ==
    IF key \notin DOMAIN f THEN Some(None)
    ELSE IF Tag(f[key]) = "null" THEN Some(None)
    ELSE IF Tag(f[key]) = tag /\ (tag = "num" => f[key][2] >= 0) THEN Some(Some(f[key][2]))
    ELSE None

\* A required field of a plain type.
de_req(f, key, tag) ==
    IF key \in DOMAIN f /\ Tag(f[key]) = tag /\ (tag = "num" => f[key][2] >= 0)
    THEN Some(f[key][2])
    ELSE None

ProfileKeys == {"name", "gd-path"}

de_Profile(v) ==
    IF Tag(v) # "obj" THEN None
    ELSE LET f == v[2]
             name == de_req(f, "name", "str")
             gd_path == de_req(f, "gd-path", "str")
         IN IF is_none(name) \/ is_none(gd_path) THEN None
            ELSE Some(Profile(name[1], gd_path[1], Restrict(f, DOMAIN f \ ProfileKeys)))

RECURSIVE de_Profiles(_)
de_Profiles(a) ==
    IF Len(a) = 0 THEN Some(<<>>)
    ELSE LET h == de_Profile(Head(a))
             t == de_Profiles(Tail(a))
         IN IF is_none(h) \/ is_none(t) THEN None ELSE Some(<<h[1]>> \o t[1])

ConfigKeys == {"current-profile", "profiles", "default-developer", "sdk-nightly"}

\* serde_json::from_str::<Config>
from_str_Config(content) ==
    IF Tag(content) # "obj" THEN None
    ELSE LET f == content[2]
             current_profile == de_opt(f, "current-profile", "str")
             arr == de_req(f, "profiles", "arr")
             profiles == IF is_none(arr) THEN None ELSE de_Profiles(arr[1])
             default_developer == de_opt(f, "default-developer", "str")
             sdk_nightly == de_req(f, "sdk-nightly", "bool")
         IN IF is_none(current_profile) \/ is_none(profiles)
               \/ is_none(default_developer) \/ is_none(sdk_nightly)
            THEN None
            ELSE Some(Config(current_profile[1], profiles[1], default_developer[1],
                             sdk_nightly[1], Restrict(f, DOMAIN f \ ConfigKeys)))

de_Installation(v) ==
    IF Tag(v) # "obj" THEN None
    ELSE LET f == v[2]
             path == de_req(f, "path", "str")
             executable == de_req(f, "executable", "str")
         IN IF is_none(path) \/ is_none(executable) THEN None
            ELSE Some(OldConfigInstallation(path[1], executable[1]))

RECURSIVE de_Installations(_)
de_Installations(a) ==
    IF Len(a) = 0 THEN Some(<<>>)
    ELSE LET h == de_Installation(Head(a))
             t == de_Installations(Tail(a))
         IN IF is_none(h) \/ is_none(t) THEN None ELSE Some(<<h[1]>> \o t[1])

\* serde_json::from_str::<OldConfig>; unknown keys are ignored.
from_str_OldConfig(content) ==
    IF Tag(content) # "obj" THEN None
    ELSE LET f == content[2]
             default_installation == de_req(f, "default-installation", "num")
             working_installation == de_opt(f, "working-installation", "num")
             arr == de_opt(f, "installations", "arr")
             installations ==
                 IF is_none(arr) THEN None
                 ELSE IF is_none(arr[1]) THEN Some(None)
                 ELSE LET l == de_Installations(arr[1][1])
                      IN IF is_none(l) THEN None ELSE Some(Some(l[1]))
             default_developer == de_opt(f, "default-developer", "str")
         IN IF is_none(default_installation) \/ is_none(working_installation)
               \/ is_none(installations) \/ is_none(default_developer)
            THEN None
            ELSE Some(OldConfig(default_installation[1], working_installation[1],
                                installations[1], default_developer[1]))

(***************************************************************************)
(* serde: serialization                                                    *)
(***************************************************************************)
ser_opt(o) == IF is_some(o) THEN JStr(o[1]) ELSE JNull

ser_Profile(p) ==
    JObj(Merge(("name" :> JStr(p.name)) @@ ("gd-path" :> JStr(p.gd_path)), p.other))

RECURSIVE ser_Profiles(_)
ser_Profiles(ps) ==
    IF Len(ps) = 0 THEN <<>> ELSE <<ser_Profile(Head(ps))>> \o ser_Profiles(Tail(ps))

\* Mutant: default_developer is left out of the document.
to_string_without_developer(cfg) ==
    JObj(Merge(("current-profile" :> ser_opt(cfg.current_profile))
               @@ ("profiles" :> JArr(ser_Profiles(cfg.profiles)))
               @@ ("sdk-nightly" :> JBool(cfg.sdk_nightly)),
               cfg.other))

\* serde_json::to_string(&Config)
to_string(cfg) ==
    JObj(Merge(("current-profile" :> ser_opt(cfg.current_profile))
               @@ ("profiles" :> JArr(ser_Profiles(cfg.profiles)))
               @@ ("default-developer" :> ser_opt(cfg.default_developer))
               @@ ("sdk-nightly" :> JBool(cfg.sdk_nightly)),
               cfg.other))

(***************************************************************************)
(* OldConfig::migrate                                                      *)
(***************************************************************************)
ExeSuffix == <<".", "e", "x", "e">>

\* str::strip_suffix
strip_suffix(s, suffix) ==
    IF Len(s) >= Len(suffix) /\ SubSeq(s, Len(s) - Len(suffix) + 1, Len(s)) = suffix
    THEN Some(SubSeq(s, 1, Len(s) - Len(suffix)))
    ELSE None

migrate_profile(inst) ==
    Profile(unwrap_or(strip_suffix(inst.executable, ExeSuffix), inst.executable),
            inst.path, EmptyMap)

RECURSIVE migrate_profiles(_)
migrate_profiles(insts) ==
    IF Len(insts) = 0 THEN <<>>
    ELSE <<migrate_profile(Head(insts))>> \o migrate_profiles(Tail(insts))

\* Vec::get with a 0-based index
vec_get(v, index) == IF index + 1 \in 1..Len(v) THEN Some(v[index + 1]) ELSE None

\* Mutant: an out-of-range working index falls back to the default index.
migrate_with_fallback(old) ==
    LET profiles == IF is_some(old.installations)
                    THEN migrate_profiles(old.installations[1])
                    ELSE <<>>
        working == vec_get(profiles,
                           unwrap_or(old.working_installation, old.default_installation))
        chosen == IF is_some(working) THEN working
                  ELSE vec_get(profiles, old.default_installation)
    IN Config(IF is_some(chosen) THEN Some(chosen[1].name) ELSE None,
              profiles, old.default_developer, FALSE, EmptyMap)

migrate(old) ==
    LET profiles == IF is_some(old.installations)
                    THEN migrate_profiles(old.installations[1])
                    ELSE <<>>
        chosen == vec_get(profiles,
                          unwrap_or(old.working_installation, old.default_installation))
    IN Config(IF is_some(chosen) THEN Some(chosen[1].name) ELSE None,
              profiles, old.default_developer, FALSE, EmptyMap)

(***************************************************************************)
(* Config: lookups                                                         *)
(***************************************************************************)
\* Iterator::find over the profiles from position i on; the reference it
\* returns is the position of the profile in the collection.
RECURSIVE find_from(_, _, _)
find_from(profiles, i, name) ==
    IF i > Len(profiles) THEN None
    ELSE IF profiles[i].name = name THEN Some(i)
    ELSE find_from(profiles, i + 1, name)

\* Mutant: the last match instead of the first.
RECURSIVE find_last_from(_, _, _)
find_last_from(profiles, i, name) ==
    IF i < 1 THEN None
    ELSE IF profiles[i].name = name THEN Some(i)
    ELSE find_last_from(profiles, i - 1, name)

get_profile_last(cfg, name) ==
    IF is_some(name) THEN find_last_from(cfg.profiles, Len(cfg.profiles), name[1]) ELSE None

get_profile(cfg, name) ==
    IF is_some(name) THEN find_from(cfg.profiles, 1, name[1]) ELSE None

\* None stands for the panic of expect("No current profile found!").
get_current_profile(cfg) == get_profile(cfg, cfg.current_profile)

(***************************************************************************)
(* Config::rename_profile: the outcome and the Config it leaves.           *)
(***************************************************************************)
\* Mutant: the name is assigned even when it is taken.
rename_profile_assigns_anyway(cfg, old, new) ==
    LET profile == get_profile(cfg, Some(old))
    IN IF is_none(profile) THEN [outcome |-> "panic", cfg |-> cfg]
       ELSE IF is_some(get_profile(cfg, Some(new)))
       THEN [outcome |-> "fail", cfg |-> [cfg EXCEPT !.profiles[profile[1]].name = new]]
       ELSE [outcome |-> "done", cfg |-> [cfg EXCEPT !.profiles[profile[1]].name = new]]

\* Mutant: every profile named old is renamed.
rename_profile_every_match(cfg, old, new) ==
    LET profile == get_profile(cfg, Some(old))
    IN IF is_none(profile) THEN [outcome |-> "panic", cfg |-> cfg]
       ELSE IF is_some(get_profile(cfg, Some(new))) THEN [outcome |-> "fail", cfg |-> cfg]
       ELSE [outcome |-> "done",
             cfg |-> [cfg EXCEPT !.profiles =
                         [i \in DOMAIN cfg.profiles |->
                             IF cfg.profiles[i].name = old
                             THEN [cfg.profiles[i] EXCEPT !.name = new]
                             ELSE cfg.profiles[i]]]]

\* Mutant: current_profile follows the renamed profile.
rename_profile_follows_current(cfg, old, new) ==
    LET profile == get_profile(cfg, Some(old))
    IN IF is_none(profile) THEN [outcome |-> "panic", cfg |-> cfg]
       ELSE IF is_some(get_profile(cfg, Some(new))) THEN [outcome |-> "fail", cfg |-> cfg]
       ELSE [outcome |-> "done",
             cfg |-> [cfg EXCEPT !.profiles[profile[1]].name = new,
                                 !.current_profile =
                                     IF cfg.current_profile = Some(old)
                                     THEN Some(new) ELSE cfg.current_profile]]

\* Mutant: the taken-name check is missing.
rename_profile_unchecked(cfg, old, new) ==
    LET profile == get_profile(cfg, Some(old))
    IN IF is_none(profile) THEN [outcome |-> "panic", cfg |-> cfg]
       ELSE [outcome |-> "done",
             cfg |-> [cfg EXCEPT !.profiles[profile[1]].name = new]]

rename_profile(cfg, old, new) ==
    LET profile == get_profile(cfg, Some(old))
    IN IF is_none(profile) THEN [outcome |-> "panic", cfg |-> cfg]
       ELSE IF is_some(get_profile(cfg, Some(new))) THEN [outcome |-> "fail", cfg |-> cfg]
       ELSE [outcome |-> "done",
             cfg |-> [cfg EXCEPT !.profiles[profile[1]].name = new]]

(***************************************************************************)
(* Config::new and Config::save                                            *)
(***************************************************************************)
\* Mutant: no attempt at the legacy schema.
read_config_without_migration(file) ==
    IF is_none(file) THEN [path |-> "no_document", output |-> EmptyConfig]
    ELSE LET json == from_str_Config(file[1])
         IN IF is_some(json) THEN [path |-> "current", output |-> json[1]]
            ELSE [path |-> "fatal", output |-> EmptyConfig]

\* What lines 191-217 make of config.json: the path taken and the Config.
read_config(file) ==
    IF is_none(file) THEN [path |-> "no_document", output |-> EmptyConfig]
    ELSE LET json == from_str_Config(file[1])
             old == from_str_OldConfig(file[1])
         IN IF is_some(json) THEN [path |-> "current", output |-> json[1]]
            ELSE IF is_some(old) THEN [path |-> "migrated", output |-> migrate(old[1])]
            ELSE [path |-> "fatal", output |-> EmptyConfig]

\* Mutant: only an unset current_profile is repaired.
repair_unset_only(output) ==
    IF Len(output.profiles) = 0 THEN output
    ELSE IF is_none(output.current_profile)
    THEN [output EXCEPT !.current_profile = Some(output.profiles[1].name)]
    ELSE output

\* The post-load repair of lines 221-226.
repair(output) ==
    IF Len(output.profiles) = 0 THEN output
    ELSE IF is_none(get_profile(output, output.current_profile))
    THEN [output EXCEPT !.current_profile = Some(output.profiles[1].name)]
    ELSE output

\* The file save() leaves on disk.
saved(cfg) == Some(to_string(cfg))

\* Mutant: only a freshly created Config is written.
Config_new_writes_fresh_only(root, file) ==
    IF ~root
    THEN [path |-> "no_root", output |-> EmptyConfig, root |-> root, file |-> file]
    ELSE LET r == read_config(file)
         IN IF r.path = "fatal"
            THEN [path |-> "fatal", output |-> EmptyConfig, root |-> root, file |-> file]
            ELSE [path |-> r.path, output |-> repair(r.output), root |-> TRUE,
                  file |-> IF r.path = "no_document" THEN saved(r.output) ELSE file]

\* Config::new: the path taken, the Config returned, and the root directory
\* and config.json it leaves.
Config_new(root, file) ==
    IF ~root
    THEN [path |-> "no_root", output |-> EmptyConfig, root |-> root, file |-> file]
    ELSE LET r == read_config(file)
         IN IF r.path = "fatal"
            THEN [path |-> "fatal", output |-> EmptyConfig, root |-> root, file |-> file]
            ELSE [path |-> r.path, output |-> repair(r.output),
                  root |-> TRUE, file |-> saved(r.output)]

(***************************************************************************)
(* Macros of the crate used by this file.  fatal! stands where a value of  *)
(* type Config or PathBuf is required (lines 170 and 213), so it never     *)
(* returns; fail! is used as a statement and only reports.                 *)
(***************************************************************************)
after_fatal == "dead"
after_fail == "ready"

(***************************************************************************)
(* Inputs                                                                  *)
(***************************************************************************)
nG == <<"G">>
nH == <<"H">>
nN == <<"N">>
nZ == <<"Z">>
G_exe == <<"G", ".", "e", "x", "e">>
G_exe_exe == <<"G", ".", "e", "x", "e", ".", "e", "x", "e">>
H_exe_exe == <<"H", ".", "e", "x", "e", ".", "e", "x", "e">>
G_ex == <<"G", ".", "e", "x">>
dot_exe == <<".", "e", "x", "e">>

SeqsUpTo(S, n) == UNION {[1..k -> S] : k \in 0..n}

ProfileDoc(name, path) == JObj(("name" :> JStr(name)) @@ ("gd-path" :> JStr(path)))
InstallationDoc(path, executable) ==
    JObj(("path" :> JStr(path)) @@ ("executable" :> JStr(executable)))

Paths == {"/a", "/b"}

ProfileDocs ==
    {ProfileDoc(nG, "/a"), ProfileDoc(nH, "/b"), ProfileDoc(nH, "/a"),
     JObj(("name" :> JStr(nG)) @@ ("gd-path" :> JStr("/b")) @@ ("icon" :> JNum(7)))}

CurrentProfileDocs ==
    {EmptyMap, "current-profile" :> JNull,
     "current-profile" :> JStr(nG), "current-profile" :> JStr(nH)}

PassthroughDocs ==
    {"sdk-nightly" :> JBool(FALSE),
     ("sdk-nightly" :> JBool(TRUE)) @@ ("default-developer" :> JStr("dev"))
        @@ ("theme" :> JStr("dark"))}

\* Documents of the current schema.
CurrentDocs ==
    {JObj(Merge(("profiles" :> JArr(ps)) @@ rest, cur)) :
        ps \in SeqsUpTo(ProfileDocs, MaxProfiles),
        cur \in CurrentProfileDocs,
        rest \in PassthroughDocs}

InstallationDocs ==
    {InstallationDoc("/a", G_exe), InstallationDoc("/b", nG),
     InstallationDoc("/b", H_exe_exe)}

WorkingDocs == {EmptyMap} \cup {"working-installation" :> JNum(w) : w \in 0..MaxProfiles}

\* Documents of the legacy schema.
LegacyDocs ==
    {JObj(Merge(Merge("default-installation" :> JNum(d), w), insts)) :
        d \in 0..MaxProfiles,
        w \in WorkingDocs,
        insts \in {EmptyMap} \cup
                  {"installations" :> JArr(l) : l \in SeqsUpTo(InstallationDocs, MaxProfiles)}}

\* Legacy documents over every executable name and path, for migrate alone.
Executables == {nG, G_exe, G_exe_exe, dot_exe, G_ex}

MigrateDocs ==
    {JObj(Merge(Merge(Merge("default-installation" :> JNum(d), w), insts), dev)) :
        d \in 0..MaxProfiles,
        w \in WorkingDocs,
        insts \in {EmptyMap, "installations" :> JNull} \cup
                  {"installations" :> JArr(l) :
                      l \in SeqsUpTo({InstallationDoc(p, e) : p \in Paths, e \in Executables},
                                     MaxProfiles)},
        dev \in {EmptyMap, "default-developer" :> JStr("dev")}}

\* Files that are valid under neither schema, and one valid under both.
Garbage == <<"garbage">>
OddDocs ==
    {Garbage,
     JObj(EmptyMap),
     JObj("profiles" :> JArr(<<ProfileDoc(nG, "/a")>>)),
     JObj(("profiles" :> JArr(<<JObj("name" :> JStr(nG))>>)) @@ ("sdk-nightly" :> JBool(FALSE))),
     JObj(("profiles" :> JArr(<<>>)) @@ ("sdk-nightly" :> JBool(FALSE))
          @@ ("current-profile" :> JNum(0))),
     JObj(("default-installation" :> JNum(-1))
          @@ ("installations" :> JArr(<<InstallationDoc("/a", G_exe)>>))),
     JObj(("installations" :> JArr(<<InstallationDoc("/a", G_exe)>>))),
     JObj(("profiles" :> JArr(<<ProfileDoc(nH, "/a")>>)) @@ ("sdk-nightly" :> JBool(TRUE))
          @@ ("default-installation" :> JNum(0))
          @@ ("installations" :> JArr(<<InstallationDoc("/a", G_exe)>>)))}

InitFiles == {None} \cup {Some(d) : d \in CurrentDocs \cup LegacyDocs \cup OddDocs}

NewNames == {nG, nH, nN}
LookupNames == {None, Some(nG), Some(nH), Some(nN)}
ProfileNamesOf(cfg) == {cfg.profiles[i].name : i \in 1..Len(cfg.profiles)}

(***************************************************************************)
(* The state machine                                                       *)
(***************************************************************************)
Init ==
    /\ rootExists \in BOOLEAN
    /\ disk \in (IF rootExists THEN InitFiles ELSE {None})
    /\ config = EmptyConfig
    /\ pc = "idle"
    /\ ret = [op |-> "none"]

\* Config::new()
New ==
    LET r == Config_new(rootExists, disk)
    IN /\ rootExists' = r.root
       /\ disk' = r.file
       /\ config' = r.output
       /\ pc' = IF r.path = "fatal" THEN after_fatal ELSE "ready"
       /\ ret' = [op |-> "new", path |-> r.path]

\* Config::save(&self)
Save ==
    /\ pc = "ready"
    /\ rootExists' = TRUE
    /\ disk' = saved(config)
    /\ ret' = [op |-> "save"]
    /\ UNCHANGED <<config, pc>>

\* Config::get_profile(&self, name)
GetProfile(name) ==
    /\ pc = "ready"
    /\ ret' = [op |-> "get_profile", name |-> name, val |-> get_profile(config, name)]
    /\ UNCHANGED <<rootExists, disk, config, pc>>

\* Config::get_current_profile(&self)
GetCurrentProfile ==
    /\ pc = "ready"
    /\ LET found == get_current_profile(config)
       IN /\ ret' = [op |-> "get_current_profile", val |-> found]
          /\ IF is_none(found)
             THEN pc' = "dead" /\ config' = EmptyConfig
             ELSE UNCHANGED <<pc, config>>
    /\ UNCHANGED <<rootExists, disk>>

\* Config::rename_profile(&mut self, old, new)
RenameProfile(old, new) ==
    /\ pc = "ready"
    /\ LET r == rename_profile(config, old, new)
       IN /\ ret' = [op |-> "rename_profile", old |-> old, new |-> new,
                     outcome |-> r.outcome]
          /\ IF r.outcome = "panic"
             THEN pc' = "dead" /\ config' = EmptyConfig
             ELSE IF r.outcome = "fail"
             THEN pc' = after_fail /\ config' = r.cfg
             ELSE pc' = pc /\ config' = r.cfg
    /\ UNCHANGED <<rootExists, disk>>

Next ==
    \/ New
    \/ Save
    \/ \E name \in LookupNames : GetProfile(name)
    \/ GetCurrentProfile
    \/ \E old \in ProfileNamesOf(config) \cup {nZ}, new \in NewNames : RenameProfile(old, new)

Spec == Init /\ [][Next]_vars

\* OldConfig::migrate(&self), applied to what a legacy document deserializes to.
InitMigrate ==
    /\ rootExists = TRUE
    /\ disk \in {Some(d) : d \in MigrateDocs}
    /\ config = EmptyConfig
    /\ pc = "idle"
    /\ ret = [op |-> "none"]

Migrate ==
    /\ ret.op = "none"
    /\ LET old == from_str_OldConfig(disk[1])
       IN /\ is_some(old)
          /\ ret' = [op |-> "migrate", old |-> old[1], val |-> migrate(old[1])]
    /\ UNCHANGED <<rootExists, disk, config, pc>>

NextMigrate == Migrate

SpecMigrate == InitMigrate /\ [][NextMigrate]_vars

(***************************************************************************)
(* Vocabulary of the properties                                            *)
(***************************************************************************)
Indices(cfg) == 1..Len(cfg.profiles)
Named(cfg, name) == {i \in Indices(cfg) : cfg.profiles[i].name = name}
HasProfile(cfg, name) == Named(cfg, name) # {}
\* current_profile is set and names a profile of the collection.
Resolves(cfg) == is_some(cfg.current_profile) /\ HasProfile(cfg, cfg.current_profile[1])
\* current_profile is set, the collection is not empty, and no profile has that name.
Orphaned(cfg) ==
    /\ Len(cfg.profiles) > 0
    /\ is_some(cfg.current_profile)
    /\ ~HasProfile(cfg, cfg.current_profile[1])
DistinctNames(cfg) ==
    \A i, j \in Indices(cfg) : i # j => cfg.profiles[i].name # cfg.profiles[j].name
SameRecognized(a, b) ==
    /\ Len(a.profiles) = Len(b.profiles)
    /\ \A i \in Indices(a) : /\ a.profiles[i].name = b.profiles[i].name
                             /\ a.profiles[i].gd_path = b.profiles[i].gd_path
    /\ a.default_developer = b.default_developer
    /\ a.sdk_nightly = b.sdk_nightly
Returned(path) == path \in {"no_document", "current", "migrated"}
ParsesAsCurrent(file) == is_some(file) /\ is_some(from_str_Config(file[1]))
ParsesAsLegacy(file) == is_some(file) /\ is_some(from_str_OldConfig(file[1]))
EndsWithExe(e) ==
    /\ Len(e) >= 4
    /\ e[Len(e) - 3] = "." /\ e[Len(e) - 2] = "e" /\ e[Len(e) - 1] = "x" /\ e[Len(e)] = "e"

(***************************************************************************)
(* Properties                                                              *)
(***************************************************************************)

\* C1: every load of a document with a non-empty profile list returns a
\* Config whose current_profile names an existing profile: the loaded value
\* when that already matched a profile, the name of profiles[0] when it was
\* unset or matched none; get_current_profile right after the load does not
\* abort.
C1_LoadRepairsCurrentProfile ==
    [][ /\ (ret'.op = "new" /\ Returned(ret'.path) /\ Len(config'.profiles) > 0) =>
            LET loaded == read_config(disk).output
            IN /\ pc' = "ready"
               /\ config'.profiles = loaded.profiles
               /\ Resolves(config')
               /\ IF Resolves(loaded)
                  THEN config'.current_profile = loaded.current_profile
                  ELSE config'.current_profile = Some(config'.profiles[1].name)
        /\ (ret.op = "new" /\ pc = "ready" /\ Len(config.profiles) > 0
              /\ ret'.op = "get_current_profile") =>
            (pc' = "ready" /\ is_some(ret'.val))
      ]_vars

\* A load that had to repair a current_profile naming no profile.
C1_Witness ==
    /\ ret.op = "new" /\ pc = "ready"
    /\ Len(config.profiles) = 2
    /\ LET written == from_str_Config(disk[1])[1]
       IN /\ is_some(written.current_profile)
          /\ ~HasProfile(written, written.current_profile[1])
          /\ config.current_profile = Some(config.profiles[1].name)

\* C2: migrate turns the N installations into N profiles in order, with the
\* installation's path and its executable less one trailing ".exe";
\* current_profile is the name at index working_installation if present,
\* else default_installation, and None when that index is out of range;
\* default_developer is copied and sdk_nightly is false.
C2_MigrateCorrect ==
    ret.op = "migrate" =>
        LET old == ret.old
            cfg == ret.val
            insts == IF is_some(old.installations) THEN old.installations[1] ELSE <<>>
            N == Len(insts)
            index == IF is_some(old.working_installation)
                     THEN old.working_installation[1]
                     ELSE old.default_installation
        IN /\ Len(cfg.profiles) = N
           /\ \A i \in 1..N :
                 /\ cfg.profiles[i].gd_path = insts[i].path
                 /\ IF EndsWithExe(insts[i].executable)
                    THEN cfg.profiles[i].name \o ExeSuffix = insts[i].executable
                    ELSE cfg.profiles[i].name = insts[i].executable
           /\ IF index < N
              THEN cfg.current_profile = Some(cfg.profiles[index + 1].name)
              ELSE cfg.current_profile = None
           /\ cfg.default_developer = old.default_developer
           /\ cfg.sdk_nightly = FALSE

\* A migration of two installations, one name stripped of ".exe.exe"'s last
\* ".exe" and one left alone, whose working index is out of range while the
\* default index is not.
C2_Witness ==
    /\ ret.op = "migrate"
    /\ Len(ret.val.profiles) = 2
    /\ ret.val.profiles[1].name = G_exe
    /\ ret.val.profiles[2].name = G_ex
    /\ is_some(ret.old.working_installation)
    /\ ret.old.working_installation[1] >= 2
    /\ ret.old.default_installation = 0
    /\ ret.val.current_profile = None

\* C8: get_profile(None) is none; get_profile(Some(name)) is the profile at
\* the lowest index whose name is name, none when there is no such profile;
\* the call changes nothing.
C8_GetProfileFirstMatch ==
    [][ ret'.op = "get_profile" =>
          /\ is_none(ret'.name) => is_none(ret'.val)
          /\ is_some(ret'.name) =>
                LET matches == Named(config, ret'.name[1])
                IN IF matches = {}
                   THEN is_none(ret'.val)
                   ELSE /\ is_some(ret'.val)
                        /\ ret'.val[1] \in matches
                        /\ \A j \in matches : ret'.val[1] <= j
          /\ UNCHANGED <<rootExists, disk, config, pc>>
      ]_vars

\* A lookup that found a name two profiles carry.
C8_Witness ==
    /\ ret.op = "get_profile"
    /\ is_some(ret.val)
    /\ \E j \in Indices(config) : j > ret.val[1] /\ config.profiles[j].name = ret.name[1]

\* C3: rename_profile(old, new) with old an existing profile and new the
\* name of an existing profile (new = old included) reports a failure, does
\* not terminate the process and leaves the Config as it was.
C3_RenameToTakenNameFails ==
    [][ (ret'.op = "rename_profile" /\ HasProfile(config, ret'.old)
           /\ HasProfile(config, ret'.new)) =>
          /\ ret'.outcome = "fail"
          /\ pc' = "ready"
          /\ config' = config
          /\ UNCHANGED <<rootExists, disk>>
      ]_vars

\* A rejected rename to the name of another profile.
C3_Witness ==
    /\ ret.op = "rename_profile" /\ ret.outcome = "fail"
    /\ pc = "ready"
    /\ ret.old # ret.new
    /\ HasProfile(config, ret.old) /\ HasProfile(config, ret.new)

\* C4: rename_profile(old, new) with old an existing profile and new no
\* profile's name changes exactly the name of the first profile named old;
\* the other profiles, that profile's path, the length and order of the
\* collection, current_profile, default_developer, sdk_nightly and the
\* document on disk stay as they were.
C4_RenameChangesOneName ==
    [][ (ret'.op = "rename_profile" /\ HasProfile(config, ret'.old)
           /\ ~HasProfile(config, ret'.new)) =>
          LET k == CHOOSE i \in Named(config, ret'.old) :
                      \A j \in Named(config, ret'.old) : i <= j
          IN /\ ret'.outcome = "done"
             /\ pc' = "ready"
             /\ Len(config'.profiles) = Len(config.profiles)
             /\ config'.profiles[k].name = ret'.new
             /\ config'.profiles[k].gd_path = config.profiles[k].gd_path
             /\ config'.profiles[k].other = config.profiles[k].other
             /\ \A i \in Indices(config) \ {k} : config'.profiles[i] = config.profiles[i]
             /\ config'.current_profile = config.current_profile
             /\ config'.default_developer = config.default_developer
             /\ config'.sdk_nightly = config.sdk_nightly
             /\ config'.other = config.other
             /\ UNCHANGED <<rootExists, disk>>
      ]_vars

\* A successful rename that left a later profile with the old name.
C4_Witness ==
    /\ ret.op = "rename_profile" /\ ret.outcome = "done"
    /\ \E i, j \in Indices(config) :
          i < j /\ config.profiles[i].name = ret.new /\ config.profiles[j].name = ret.old

\* C5 as stated: save() followed by load() returns a Config equal to the
\* saved one in current_profile, the profile list (names and paths),
\* default_developer and sdk_nightly.
C5_RoundTripAllFields ==
    [][ (ret.op = "save" /\ pc = "ready" /\ ret'.op = "new") =>
          /\ pc' = "ready"
          /\ SameRecognized(config', config)
          /\ config'.current_profile = config.current_profile
      ]_vars

\* C5 amended: save() followed by load() returns the saved profile list,
\* default_developer and sdk_nightly; current_profile comes back as saved
\* when it names a saved profile or the list is empty, and as the name of
\* the first profile otherwise.
C5_RoundTripUpToRepair ==
    [][ (ret.op = "save" /\ pc = "ready" /\ ret'.op = "new") =>
          /\ pc' = "ready"
          /\ ret'.path = "current"
          /\ SameRecognized(config', config)
          /\ IF Len(config.profiles) = 0 \/ Resolves(config)
             THEN config'.current_profile = config.current_profile
             ELSE config'.current_profile = Some(config.profiles[1].name)
      ]_vars

\* A load of a saved, renamed Config whose saved current_profile named no
\* profile and came back as the first profile's name.
C5_Witness ==
    /\ ret.op = "new" /\ ret.path = "current" /\ pc = "ready"
    /\ HasProfile(config, nN)
    /\ LET written == from_str_Config(disk[1])[1]
       IN /\ written.profiles = config.profiles
          /\ Orphaned(written)
          /\ config.current_profile = Some(config.profiles[1].name)

C7_LoadNormalizesDocument ==
    [][ /\ (ret'.op = "new" /\ Returned(ret'.path)) =>
              (rootExists' /\ ParsesAsCurrent(disk'))
        /\ (ret'.op = "new" /\ ret'.path = "no_document") => config' = EmptyConfig
        /\ (disk' # disk /\ ParsesAsCurrent(disk)) => ParsesAsCurrent(disk')
        /\ (ret.op = "new" /\ Returned(ret.path) /\ ret'.op = "new") =>
              /\ ret'.path = "current"
              /\ pc' = "ready"
              /\ SameRecognized(config', config)
      ]_vars

\* A direct parse of a document that an earlier load migrated: the name
\* "H.exe" only comes from the legacy executable "H.exe.exe".
C7_Witness ==
    /\ ret.op = "new" /\ ret.path = "current" /\ pc = "ready"
    /\ HasProfile(config, <<"H", ".", "e", "x", "e">>)

\* C9 as stated: a successful rename of the profile current_profile names
\* leaves current_profile at the old name, which no profile has any more.
C9_RenameOrphansCurrent ==
    [][ (ret'.op = "rename_profile" /\ ret'.outcome = "done"
           /\ config.current_profile = Some(ret'.old)) =>
          /\ config'.current_profile = Some(ret'.old)
          /\ Orphaned(config')
      ]_vars

\* C9 amended: a successful rename of the profile current_profile names,
\* when no other profile has that name, leaves current_profile at the old
\* name, which no profile has any more; get_current_profile then aborts; it
\* stays so through saves, lookups and renames to names other than
\* current_profile, and the next load returns a Config whose current_profile
\* names an existing profile.
C9_RenameOrphansCurrentWhenUnique ==
    [][ /\ (ret'.op = "rename_profile" /\ ret'.outcome = "done"
              /\ config.current_profile = Some(ret'.old)
              /\ Cardinality(Named(config, ret'.old)) = 1) =>
             /\ config'.current_profile = Some(ret'.old)
             /\ Orphaned(config')
        /\ (pc = "ready" /\ Orphaned(config)) =>
             /\ ret'.op = "get_current_profile" => (pc' = "dead" /\ is_none(ret'.val))
             /\ ret'.op = "get_profile" => Orphaned(config')
             /\ ret'.op = "save" => Orphaned(config')
             /\ (ret'.op = "rename_profile" /\ pc' = "ready"
                   /\ Some(ret'.new) # config.current_profile) =>
                  (Orphaned(config') /\ config'.current_profile = config.current_profile)
             /\ ret'.op = "new" =>
                  (pc' = "ready" /\ Len(config'.profiles) > 0 /\ Resolves(config'))
      ]_vars

\* The current profile was just renamed and current_profile names nothing.
C9_Witness ==
    /\ ret.op = "rename_profile" /\ ret.outcome = "done"
    /\ pc = "ready"
    /\ config.current_profile = Some(ret.old)
    /\ Orphaned(config)

\* C10: a rename that does not abort keeps pairwise distinct names
\* pairwise distinct and keeps the number of profiles.
C10_RenameKeepsNamesDistinct ==
    [][ (ret'.op = "rename_profile" /\ ret'.outcome # "panic") =>
          /\ Len(config'.profiles) = Len(config.profiles)
          /\ DistinctNames(config) => DistinctNames(config')
      ]_vars

\* A successful rename in a Config of two distinctly named profiles.
C10_Witness ==
    /\ ret.op = "rename_profile" /\ ret.outcome = "done"
    /\ Len(config.profiles) = 2
    /\ DistinctNames(config)

=============================================================================
